---------------------------- MODULE Spec2Model ----------------------------
(***************************************************************************)
(* A model of jyLib: the hierarchy walk, the temporary-constraint          *)
(* reposition, the IK/FK limb construction and rigging, the closest point  *)
(* on a plane and the blendshape side reset.                               *)
(*                                                                         *)
(* The host scene is modelled by what the code reads and writes of it:     *)
(* parent pointers, shape children, attribute values, attribute            *)
(* connections, constraints, driven keys and point positions.  Node names  *)
(* are not modelled; a node is identified by a tuple <<kind, index>>.      *)
(* Each function of the library has its own specification, which draws     *)
(* the arguments of one call in its initial state and then runs the call   *)
(* statement by statement.  The variables of the other functions keep      *)
(* their idle values.                                                      *)
(***************************************************************************)
EXTENDS Integers, Sequences, FiniteSets, TLC

VARIABLES
    jntParent,      \* scene: joint -> its parent joint, 0 for the world (getParent() is None)
    \* getHierarchy(xStart, xEnd)
    hPc, xStart, xEnd, lNodes, current,
    \* ikfklimb.create(lJoints)
    cPc, lJoints, cI, lIKJoints, lFKJoints, lBlendColors, dagParent, radius, conns, blender,
    dupSrc,         \* history: duplicate -> the bind joint it was duplicated from
    \* reposition(oParent, oChild, uType)
    rPc, oParent, oChild, uType, lParent, lChild, rI, constraint, constraints, pose,
    made,           \* history: the constraints reposition has created, in order
    \* calculateClosestPointOnPlane(vecPlane1, vecPlane2, vecPlane3, vecPoint)
    pPc, vecPlane1, vecPlane2, vecPlane3, vecPoint, vecClosest,
    \* blendshapemirrorhelper: _sortVerticies(xMesh) and resetSide(lBlendshapeMeshes, xBaseMesh, side)
    vtxPos,         \* scene: mesh -> the world positions of its vertices, vertex 0 first
    sPc, dictResult, lBlendshapeMeshes, side, dictBaseSorted, sM, sV, warned,
    vtxBefore,      \* history: vtxPos when resetSide was called
    vtxFirst,       \* history: vtxPos in the initial state
    sidesDone,      \* history: the sides resetSide has been run for
    \* ikfklimb.rig(lIKJoints, lFKJoints, lBlendColors, uName, xIKEndCtrl, xIKPVCtrl, lFKCtrls,
    \*              xIKFKSwitchCtrl); the scene's DAG is dagParent
    gPc, xIKEndCtrl, xIKPVCtrl, lFKCtrls, xIKFKSwitchCtrl, lIKHandle, xIKPVCtrlOffset, gI,
    xformPos,       \* scene: transform -> world position of its rotate pivot, num / den
    rigConstraints, \* scene: the constraints rig has made
    attrIKFK,       \* scene: the IKFK attribute of the switch control
    drivenKeys,     \* scene: the driven keys, <<driven node, driver node, driver value, value>>
    offsetsMade,    \* history: an entry for each createOffsetXform, see Stamp
    ikfkBefore,     \* history: attrIKFK when rig was called
    \* parentShapes(lShapes, xParent)
    shapeParent,    \* scene: shape node -> the transform it is parented under
    psPc            \* how the last call of parentShapes ended

hierVars   == <<hPc, xStart, xEnd, lNodes, current>>
createVars == <<cPc, lJoints, cI, lIKJoints, lFKJoints, lBlendColors, dagParent, radius, conns,
                blender, dupSrc>>
reposVars  == <<rPc, oParent, oChild, uType, lParent, lChild, rI, constraint, constraints, pose, made>>
planeVars  == <<pPc, vecPlane1, vecPlane2, vecPlane3, vecPoint, vecClosest>>
meshVars   == <<vtxPos, sPc, dictResult, lBlendshapeMeshes, side, dictBaseSorted, sM, sV, warned,
                vtxBefore, vtxFirst, sidesDone>>
rigVars    == <<gPc, xIKEndCtrl, xIKPVCtrl, lFKCtrls, xIKFKSwitchCtrl, lIKHandle, xIKPVCtrlOffset,
                gI, xformPos, rigConstraints, attrIKFK, drivenKeys, offsetsMade, ikfkBefore>>
shapeVars  == <<shapeParent, psPc>>
vars       == <<jntParent, hierVars, createVars, reposVars, planeVars, meshVars, rigVars,
                shapeVars>>

\* what each function leaves alone
exceptHier   == <<jntParent, createVars, reposVars, planeVars, meshVars, rigVars, shapeVars>>
exceptCreate == <<jntParent, hierVars, reposVars, planeVars, meshVars, rigVars, shapeVars>>
exceptRepos  == <<jntParent, hierVars, createVars, planeVars, meshVars, rigVars, shapeVars>>
exceptPlane  == <<jntParent, hierVars, createVars, reposVars, meshVars, rigVars, shapeVars>>
exceptMesh   == <<jntParent, hierVars, createVars, reposVars, planeVars, rigVars, shapeVars>>
\* create runs before rig in the rig's specification
exceptRig    == <<jntParent, hierVars, reposVars, planeVars, meshVars, shapeVars>>
\* parentShapes works on the DAG, and a deleted transform has no position any more
exceptShapes == <<jntParent, hierVars, reposVars, planeVars, meshVars,
                  cPc, lJoints, cI, lIKJoints, lFKJoints, lBlendColors, radius, conns, blender,
                  dupSrc, gPc, xIKEndCtrl, xIKPVCtrl, lFKCtrls, xIKFKSwitchCtrl, lIKHandle,
                  xIKPVCtrlOffset, gI, rigConstraints, attrIKFK, drivenKeys, offsetsMade,
                  ikfkBefore>>

----------------------------------------------------------------------------
(* Bounds of the model *)

\* number of joints in the scene
NumJoints == 3
\* longest joint list handed to create
MaxList == 3
\* number of transforms in the scene reposition works on
NumXforms == 4
\* most parents, and most children, handed to reposition
MaxObjs == 2
\* largest coordinate of a point handed to calculateClosestPointOnPlane
MaxCoord == 1
\* most vertices of a mesh
MaxVtx == 2
\* number of FK controls in the scene
MaxFK == 2
\* largest x of a vertex handed to _sortVerticies, in steps of two ticks
MaxX == 3
\* number of times rig is called on the same controls
MaxRuns == 2

----------------------------------------------------------------------------
(* The joint hierarchy of the scene *)

Joints == 1..NumJoints
World  == 0

RECURSIVE AncestorsIn(_, _, _)
\* the proper ancestors of j under parent map p, following at most n parent pointers
AncestorsIn(p, j, n) ==
    IF n = 0 \/ p[j] = World THEN {}
    ELSE {p[j]} \cup AncestorsIn(p, p[j], n - 1)

\* a parent map is a forest when no joint is its own ancestor
IsForest(p) == \A j \in Joints : j \notin AncestorsIn(p, j, NumJoints)

Forests == {p \in [Joints -> {World} \cup Joints] : IsForest(p)}

\* joint.getParent()
getParent(j) == jntParent[j]

\* pm.listRelatives(x, ad=True): every descendant of x
listRelativesAD(x) == {j \in Joints : x \in AncestorsIn(jntParent, j, NumJoints)}

\* sequences without repetition, of length 1..n, over S
DistinctSeqs(S, n) ==
    {s \in UNION {[1..k -> S] : k \in 1..n} : \A a, b \in 1..Len(s) : a # b => s[a] # s[b]}

\* l[-1]
Last(l) == l[Len(l)]

\* list.insert(k, x) with k a 0-based position: x lands before the element at k
InsertAt(s, k, x) == SubSeq(s, 1, k) \o <<x>> \o SubSeq(s, k + 1, Len(s))

----------------------------------------------------------------------------
(* common.getHierarchy(xStart, xEnd) *)

HierIdle ==
    /\ hPc = "idle" /\ xStart = 0 /\ xEnd = 0 /\ lNodes = <<>> /\ current = 0

HierInit ==
    /\ hPc = "check"
    /\ xStart \in Joints
    /\ xEnd \in Joints
    /\ lNodes = <<>>
    /\ current = 0

\* the guard of line 95: no descendant of xStart is xEnd
\* a faulty variant: xStart counted among its own descendants
HierNoConnectionSelf(s, e) == \A node \in listRelativesAD(s) \cup {s} : node # e
HierNoConnection(s, e) == \A node \in listRelativesAD(s) : node # e

\* lines 95-99: pm.error raises when there is no connection, else the list starts at xEnd
HierCheck ==
    /\ hPc = "check"
    /\ IF HierNoConnection(xStart, xEnd)
       THEN /\ hPc' = "raised"
            /\ UNCHANGED <<lNodes, current>>
       ELSE /\ hPc' = "loop"
            /\ lNodes' = <<xEnd>>
            /\ current' = xEnd
    /\ UNCHANGED <<xStart, xEnd>>

\* lines 101-103: one turn of the while loop; None.getParent() raises
HierLoop ==
    /\ hPc = "loop"
    /\ current # xStart
    /\ IF current = World
       THEN /\ hPc' = "raised"
            /\ UNCHANGED <<lNodes, current>>
       ELSE /\ current' = getParent(current)
            /\ lNodes' = InsertAt(lNodes, 0, getParent(current))
            /\ hPc' = "loop"
    /\ UNCHANGED <<xStart, xEnd>>

\* line 104
HierReturn ==
    /\ hPc = "loop"
    /\ current = xStart
    /\ hPc' = "returned"
    /\ UNCHANGED <<xStart, xEnd, lNodes, current>>

----------------------------------------------------------------------------
(* Scene nodes other than the bind joints *)

Jnt(j)     == <<"Jnt", j>>
IKd(k)     == <<"IK", k>>        \* the IK duplicate made in turn k of the loop of line 26
FKd(k)     == <<"FK", k>>        \* the FK duplicate made in turn k
BlendC(k)  == <<"BlendC", k>>    \* the blendColors node made in turn k of the loop of line 45
WorldNode  == <<"World", 0>>

\* the DAG node a joint's getParent() names
ParentNode(j) == IF getParent(j) = World THEN WorldNode ELSE Jnt(getParent(j))

\* radius factors of lines 32 and 37, in tenths of the bind joint's radius
IKRadiusTenths == 7
FKRadiusTenths == 4

----------------------------------------------------------------------------
(* common.checkContinuousHierarchy(lJoints), run by ikfklimb.create *)

CreateIdle ==
    /\ cPc = "idle" /\ lJoints = <<>> /\ cI = 0
    /\ lIKJoints = <<>> /\ lFKJoints = <<>> /\ lBlendColors = <<>>
    /\ dagParent = <<>> /\ radius = <<>> /\ conns = {} /\ blender = <<>>
    /\ dupSrc = <<>>

CreateInit ==
    /\ cPc = "check"
    /\ lJoints \in DistinctSeqs(Joints, MaxList)
    /\ cI = 1                       \* i = 1 of line 141 (0-based)
    /\ lIKJoints = <<>> /\ lFKJoints = <<>> /\ lBlendColors = <<>>
    /\ dagParent = <<>> /\ radius = <<>> /\ conns = {} /\ blender = <<>>
    /\ dupSrc = <<>>

InList(x, l) == \E k \in 1..Len(l) : l[k] = x

\* lines 142-148: one turn of the while loop.  cI is the 0-based i, so lJoints[i]
\* is the model's lJoints[cI + 1].  A parent of None is not in the list, and
\* None.name() raises.
CheckContinuousStep ==
    /\ cPc = "check"
    /\ cI < Len(lJoints)
    /\ LET xParent == getParent(lJoints[cI + 1]) IN
       IF ~InList(xParent, lJoints)
       THEN IF xParent = World
            THEN /\ cPc' = "raised"
                 /\ UNCHANGED <<lJoints, cI>>
            ELSE /\ lJoints' = InsertAt(lJoints, cI, xParent)
                 /\ UNCHANGED <<cPc, cI>>
       ELSE /\ cI' = cI + 1
            /\ UNCHANGED <<cPc, lJoints>>
    /\ UNCHANGED <<lIKJoints, lFKJoints, lBlendColors, dagParent, radius, conns, blender, dupSrc>>

\* line 149, and lines 22-24 of create
CheckContinuousReturn ==
    /\ cPc = "check"
    /\ cI >= Len(lJoints)
    /\ cPc' = "duplicate"
    /\ cI' = 1
    /\ UNCHANGED <<lJoints, lIKJoints, lFKJoints, lBlendColors, dagParent, radius, conns, blender, dupSrc>>

----------------------------------------------------------------------------
(* ikfklimb.create(lJoints) *)

\* lines 26-38: one turn of the loop; pm.duplicate(po=True) copies the joint
\* alone and leaves the copy under the joint's own parent
CreateDuplicate ==
    /\ cPc = "duplicate"
    /\ cI <= Len(lJoints)
    /\ LET jntCurrent == lJoints[cI]
           jntIK == IKd(cI)
           jntFK == FKd(cI)
       IN /\ dagParent' = dagParent @@ (jntIK :> ParentNode(jntCurrent))
                                    @@ (jntFK :> ParentNode(jntCurrent))
          /\ dupSrc' = dupSrc @@ (jntIK :> jntCurrent) @@ (jntFK :> jntCurrent)
          /\ radius' = radius @@ (jntIK :> IKRadiusTenths) @@ (jntFK :> FKRadiusTenths)
          /\ lIKJoints' = Append(lIKJoints, jntIK)
          /\ lFKJoints' = Append(lFKJoints, jntFK)
    /\ cI' = cI + 1
    /\ UNCHANGED <<cPc, lJoints, lBlendColors, conns, blender>>

\* line 40: xrange(len(lIKJoints)-1, 0, -1) starts at the last index
CreateDuplicateDone ==
    /\ cPc = "duplicate"
    /\ cI > Len(lJoints)
    /\ cPc' = "parent"
    /\ cI' = Len(lIKJoints) - 1
    /\ UNCHANGED <<lJoints, lIKJoints, lFKJoints, lBlendColors, dagParent, radius, conns, blender, dupSrc>>

\* a faulty variant: every duplicate parented under the first one
NewParentFirst(l, i) == l[1]
\* the parent given to l[i] in lines 42 and 43, i the 0-based index: l[i-1]
NewParent(l, i) == l[i]

\* lines 40-43: one turn of the loop, cI the 0-based i
CreateParent ==
    /\ cPc = "parent"
    /\ cI >= 1
    /\ dagParent' = [dagParent EXCEPT ![lIKJoints[cI + 1]] = NewParent(lIKJoints, cI),
                                      ![lFKJoints[cI + 1]] = NewParent(lFKJoints, cI)]
    /\ cI' = cI - 1
    /\ UNCHANGED <<cPc, lJoints, lIKJoints, lFKJoints, lBlendColors, radius, conns, blender, dupSrc>>

CreateParentDone ==
    /\ cPc = "parent"
    /\ cI < 1
    /\ cPc' = "blend"
    /\ cI' = 1
    /\ UNCHANGED <<lJoints, lIKJoints, lFKJoints, lBlendColors, dagParent, radius, conns, blender, dupSrc>>

\* a faulty variant: the IK and FK inputs exchanged
BlendConnectionsSwapped(jntBind, jntIK, jntFK, blendc) ==
    { <<jntIK, "rotate", blendc, "color1">>,
      <<jntFK, "rotate", blendc, "color2">>,
      <<blendc, "output", Jnt(jntBind), "rotate">> }
\* the connections of lines 50-52, each <<source node, attribute, destination node, attribute>>
BlendConnections(jntBind, jntIK, jntFK, blendc) ==
    { <<jntFK, "rotate", blendc, "color1">>,
      <<jntIK, "rotate", blendc, "color2">>,
      <<blendc, "output", Jnt(jntBind), "rotate">> }

\* lines 45-54: one turn of the loop over izip(lJoints, lIKJoints, lFKJoints)
CreateBlend ==
    /\ cPc = "blend"
    /\ cI <= Len(lJoints) /\ cI <= Len(lIKJoints) /\ cI <= Len(lFKJoints)
    /\ LET blendcCurrent == BlendC(cI) IN
          /\ lBlendColors' = Append(lBlendColors, blendcCurrent)
          /\ conns' = conns \cup BlendConnections(lJoints[cI], lIKJoints[cI], lFKJoints[cI],
                                                  blendcCurrent)
          /\ blender' = blender @@ (blendcCurrent :> 0)
    /\ cI' = cI + 1
    /\ UNCHANGED <<cPc, lJoints, lIKJoints, lFKJoints, dagParent, radius, dupSrc>>

\* line 56
CreateReturn ==
    /\ cPc = "blend"
    /\ ~(cI <= Len(lJoints) /\ cI <= Len(lIKJoints) /\ cI <= Len(lFKJoints))
    /\ cPc' = "returned"
    /\ UNCHANGED <<lJoints, cI, lIKJoints, lFKJoints, lBlendColors, dagParent, radius, conns, blender, dupSrc>>

----------------------------------------------------------------------------
(* common.reposition(oParent, oChild, uType) *)

Xforms == 1..NumXforms

\* An argument is one object or a list of objects; items holds the object or
\* the list's elements.  An object is named by its number (longName()).
Objs(n) == {[isList |-> TRUE, items |-> l] : l \in DistinctSeqs(Xforms, n) \cup {<<>>}}
              \cup {[isList |-> FALSE, items |-> <<x>>] : x \in Xforms}

\* _getListOfObjectNames, lines 72-82: a single object becomes a one-element list
GetListOfObjectNames(oObj) ==
    IF ~oObj.isList THEN <<oObj.items[1]>> ELSE oObj.items

ItemSet(l) == {l[k] : k \in 1..Len(l)}

ReposIdle ==
    /\ rPc = "idle" /\ oParent = <<>> /\ oChild = <<>> /\ uType = "" /\ lParent = <<>>
    /\ lChild = <<>> /\ rI = 0 /\ constraint = 0 /\ constraints = {} /\ pose = <<>>
    /\ made = <<>>

\* the call: at least one parent, and no child among the parents
ReposInit ==
    /\ rPc = "call"
    /\ oParent \in Objs(MaxObjs)
    /\ oChild \in Objs(MaxObjs)
    /\ oParent.items # <<>>
    /\ ItemSet(oParent.items) \cap ItemSet(oChild.items) = {}
    /\ uType \in {"parent", "point", "orient", "scale"}
    /\ lParent = <<>> /\ lChild = <<>> /\ rI = 0
    /\ constraint = 0
    /\ constraints = {}
    \* every transform starts with a translation and a rotation of its own
    /\ pose = [x \in Xforms |-> [t |-> {x}, r |-> {x}]]
    /\ made = <<>>

\* lines 48-49
ReposLists ==
    /\ rPc = "call"
    /\ lParent' = GetListOfObjectNames(oParent)
    /\ lChild' = GetListOfObjectNames(oChild)
    /\ rI' = 1
    /\ rPc' = "constrain"
    /\ UNCHANGED <<oParent, oChild, uType, constraint, constraints, pose, made>>

\* a faulty variant: the orient branch missing
ConstraintKindNoOrient(u) ==
    IF u = "point" THEN "pointConstraint" ELSE "parentConstraint"
\* lines 51-56: the constraint command chosen by uType
ConstraintKind(u) ==
    IF u = "point" THEN "pointConstraint"
    ELSE IF u = "orient" THEN "orientConstraint"
    ELSE "parentConstraint"

\* the channels of the child a constraint of this kind drives from its targets
Driven(kind, targets, old) ==
    LET ts == UNION {pose[p].t : p \in ItemSet(targets)}
        rs == UNION {pose[p].r : p \in ItemSet(targets)}
    IN [t |-> IF kind = "orientConstraint" THEN old.t ELSE ts,
        r |-> IF kind = "pointConstraint" THEN old.r ELSE rs]

\* lines 50-56: the constraint of this turn's child is created; it places the child
ReposConstrain ==
    /\ rPc = "constrain"
    /\ rI <= Len(lChild)
    /\ LET uChild == lChild[rI]
           new == [id |-> Len(made) + 1, kind |-> ConstraintKind(uType),
                   targets |-> lParent, child |-> uChild]
       IN /\ constraints' = constraints \cup {new}
          /\ constraint' = new.id
          /\ made' = Append(made, new)
          /\ pose' = [pose EXCEPT ![uChild] = Driven(new.kind, lParent, pose[uChild])]
    /\ rPc' = "delete"
    /\ UNCHANGED <<oParent, oChild, uType, lParent, lChild, rI>>

\* line 57: cmds.delete(constraint); the child keeps its place
ReposDelete ==
    /\ rPc = "delete"
    /\ constraints' = {c \in constraints : c.id # constraint}
    /\ rI' = rI + 1
    /\ rPc' = "constrain"
    /\ UNCHANGED <<oParent, oChild, uType, lParent, lChild, constraint, pose, made>>

\* the loop of line 50 is over
ReposReturn ==
    /\ rPc = "constrain"
    /\ rI > Len(lChild)
    /\ rPc' = "returned"
    /\ UNCHANGED <<oParent, oChild, uType, lParent, lChild, rI, constraint, constraints, pose, made>>

----------------------------------------------------------------------------
(* common.calculateClosestPointOnPlane *)

(***************************************************************************)
(* Vectors are triples of integers.  The arithmetic is exact: a unit       *)
(* vector v/|v| is kept as the pair of v and |v|^2, and a point with       *)
(* fractional coordinates as a numerator vector over one denominator.      *)
(* Floating-point rounding is not modelled.                                *)
(***************************************************************************)
VSub(a, b)   == <<a[1] - b[1], a[2] - b[2], a[3] - b[3]>>
VAdd(a, b)   == <<a[1] + b[1], a[2] + b[2], a[3] + b[3]>>
VScale(k, a) == <<k * a[1], k * a[2], k * a[3]>>
VDot(a, b)   == a[1] * b[1] + a[2] * b[2] + a[3] * b[3]
VCross(a, b) == <<a[2] * b[3] - a[3] * b[2],
                  a[3] * b[1] - a[1] * b[3],
                  a[1] * b[2] - a[2] * b[1]>>
Zero3 == <<0, 0, 0>>

\* v.normal(): the unit vector dir / sqrt(len2)
VNormal(v) == [dir |-> v, len2 |-> VDot(v, v)]

\* line 178
PlaneNormal(p1, p2, p3) == VNormal(VCross(VSub(p2, p1), VSub(p3, p1)))

\* line 179: vecPlaneNormal.dot(vecPoint - vecPlane1), the number num / sqrt(len2)
PlaneDistance(n, p1, pt) == [num |-> VDot(n.dir, VSub(pt, p1)), len2 |-> n.len2]

\* a faulty variant: the distance added instead of subtracted
ClosestFromAdded(n, d, pt) ==
    [num |-> VAdd(VScale(n.len2, pt), VScale(d.num, n.dir)), den |-> n.len2]
\* line 180: vecPoint + -distance * vecPlaneNormal.  The two square roots
\* multiply to len2, so the result is (len2 * vecPoint - num * dir) / len2.
ClosestFrom(n, d, pt) ==
    [num |-> VAdd(VScale(n.len2, pt), VScale(-d.num, n.dir)), den |-> n.len2]

\* lines 178-180
calculateClosestPointOnPlane(p1, p2, p3, pt) ==
    LET vecPlaneNormal == PlaneNormal(p1, p2, p3)
        distance == PlaneDistance(vecPlaneNormal, p1, pt)
    IN ClosestFrom(vecPlaneNormal, distance, pt)

PlanePoints == {<<x, y, z>> : x \in 0..MaxCoord, y \in 0..MaxCoord, z \in 0..MaxCoord}
FreePoints  == {<<x, y, z>> : x \in (-1)..MaxCoord, y \in (-1)..MaxCoord, z \in (-1)..MaxCoord}

Collinear(p1, p2, p3) == VCross(VSub(p2, p1), VSub(p3, p1)) = Zero3

PlaneIdle ==
    /\ pPc = "idle" /\ vecPlane1 = Zero3 /\ vecPlane2 = Zero3 /\ vecPlane3 = Zero3
    /\ vecPoint = Zero3 /\ vecClosest = [num |-> Zero3, den |-> 1]

\* the call, with three plane points that are not on one line
PlaneInit ==
    /\ pPc = "call"
    /\ vecPlane1 \in PlanePoints
    /\ vecPlane2 \in PlanePoints
    /\ vecPlane3 \in PlanePoints
    /\ ~Collinear(vecPlane1, vecPlane2, vecPlane3)
    /\ vecPoint \in FreePoints
    /\ vecClosest = [num |-> Zero3, den |-> 1]

PlaneCall ==
    /\ pPc = "call"
    /\ vecClosest' = calculateClosestPointOnPlane(vecPlane1, vecPlane2, vecPlane3, vecPoint)
    /\ pPc' = "returned"
    /\ UNCHANGED <<vecPlane1, vecPlane2, vecPlane3, vecPoint>>

----------------------------------------------------------------------------
(* common.isclose, common.midpoint and blendshapemirrorhelper._sortVerticies *)

(***************************************************************************)
(* Coordinates are whole numbers of ticks of 0.00000025 scene units, so    *)
(* that the tolerances of isclose are whole numbers as well.               *)
(***************************************************************************)

\* abs_tol=0.000001 of line 101, in ticks
SortAbsTol == 4
\* rel_tol=1e-09 is one part in RelTolParts
RelTolParts == 1000000000

Abs(a) == IF a < 0 THEN -a ELSE a
Max(a, b) == IF a >= b THEN a ELSE b

\* line 159: abs(a - b) <= max(rel_tol * max(abs(a), abs(b)), abs_tol).  For whole
\* numbers d and m, d <= m / RelTolParts exactly when d <= m \div RelTolParts.
isclose(a, b, abs_tol) ==
    Abs(a - b) <= Max(Max(Abs(a), Abs(b)) \div RelTolParts, abs_tol)

\* a faulty variant: the first point returned
midpointFirst(p, q) == p
\* line 154: ((x1+x2)/2, (y1+y2)/2, (z1+z2)/2), a true division of floats.  The
\* model's coordinates are even until halved once, which keeps \div exact.
midpoint(p, q) == <<(p[1] + q[1]) \div 2, (p[2] + q[2]) \div 2, (p[3] + q[3]) \div 2>>

BaseMesh == 0
Shapes   == {1, 2}

\* len(xMesh.vtx)
NumVtx(mesh) == Len(vtxPos[mesh])
\* cmds.pointPosition('mesh.vtx[i]'), i counted from 0
pointPosition(mesh, i) == vtxPos[mesh][i + 1]

\* a faulty variant: a strict comparison with the tolerance
SideOfStrict(x) ==
    IF Abs(x) < SortAbsTol THEN "center" ELSE IF x > 0 THEN "left" ELSE "right"
\* lines 101-106
SideOf(x) ==
    IF isclose(0, x, SortAbsTol) THEN "center"
    ELSE IF x > 0 THEN "left"
    ELSE "right"

\* lines 97-107: the dictionary from vertex index to side
sortVerticies(xMesh) ==
    [i \in 0..(NumVtx(xMesh) - 1) |-> SideOf(pointPosition(xMesh, i)[1])]

MeshIdle ==
    /\ vtxPos = <<>> /\ sPc = "idle" /\ dictResult = <<>> /\ lBlendshapeMeshes = <<>>
    /\ side = "" /\ dictBaseSorted = <<>> /\ sM = 0 /\ sV = 0 /\ warned = {}
    /\ vtxBefore = <<>> /\ vtxFirst = <<>> /\ sidesDone = {}

\* the positions a vertex handed to _sortVerticies may have
SortPoints == {<<2 * g, y, z>> : g \in (-MaxX)..MaxX, y \in {0, 2}, z \in {0, -2}}

\* a call of _sortVerticies on a mesh of up to MaxVtx vertices
SortInit ==
    /\ vtxPos \in [{BaseMesh} -> UNION {[1..n -> SortPoints] : n \in 0..MaxVtx}]
    /\ sPc = "sort"
    /\ dictResult = <<>> /\ lBlendshapeMeshes = <<>>
    /\ side = "" /\ dictBaseSorted = <<>> /\ sM = 0 /\ sV = 0 /\ warned = {}
    /\ vtxBefore = vtxPos /\ vtxFirst = vtxPos /\ sidesDone = {}

SortCall ==
    /\ sPc = "sort"
    /\ dictResult' = sortVerticies(BaseMesh)
    /\ sPc' = "sorted"
    /\ UNCHANGED <<vtxPos, lBlendshapeMeshes, side, dictBaseSorted, sM, sV, warned, vtxBefore,
                   vtxFirst, sidesDone>>

----------------------------------------------------------------------------
(* blendshapemirrorhelper.resetSide(lBlendshapeMeshes, xBaseMesh, side) *)

\* base x coordinates: right of the tolerance, inside it but not zero, left of it
BaseXs == {-SortAbsTol - 2, SortAbsTol - 2, SortAbsTol + 2}
BasePoints == {<<x, 0, 2>> : x \in BaseXs}
\* what a blendshape adds to a base vertex
Deltas == {<<0, 0, 0>>, <<2, -4, 6>>}

\* the scene: a base mesh of MaxVtx vertices and two blendshape meshes made
\* from it; the second blendshape may lack the last vertex
ResetScene ==
    /\ \E base \in [1..MaxVtx -> BasePoints], d1, d2 \in [1..MaxVtx -> Deltas],
          n2 \in {MaxVtx - 1, MaxVtx} :
          vtxPos = (BaseMesh :> base)
                   @@ (1 :> [i \in 1..MaxVtx |-> VAdd(base[i], d1[i])])
                   @@ (2 :> [i \in 1..n2 |-> VAdd(base[i], d2[i])])
    /\ dictResult = <<>>
    /\ dictBaseSorted = <<>> /\ sM = 0 /\ sV = 0 /\ warned = {}
    /\ vtxBefore = vtxPos /\ vtxFirst = vtxPos /\ sidesDone = {}

\* a call of resetSide with a list of different blendshape meshes (the tool's
\* Selector keeps its items different) and one of the two sides
ResetInit ==
    /\ ResetScene
    /\ sPc = "call"
    /\ lBlendshapeMeshes \in DistinctSeqs(Shapes, 2)
    /\ side \in {"left", "right"}

\* line 70
ResetSort ==
    /\ sPc = "call"
    /\ dictBaseSorted' = sortVerticies(BaseMesh)
    /\ sM' = 1
    /\ sPc' = "mesh"
    /\ vtxBefore' = vtxPos
    /\ sidesDone' = sidesDone \cup {side}
    /\ UNCHANGED <<vtxPos, dictResult, lBlendshapeMeshes, side, sV, warned, vtxFirst>>

\* lines 71-75: the next blendshape; the warning about its vertex count
ResetMesh ==
    /\ sPc = "mesh"
    /\ sM <= Len(lBlendshapeMeshes)
    /\ warned' = IF NumVtx(lBlendshapeMeshes[sM]) # NumVtx(BaseMesh)
                 THEN warned \cup {lBlendshapeMeshes[sM]} ELSE warned
    /\ sV' = 0
    /\ sPc' = "vertex"
    /\ UNCHANGED <<vtxPos, dictResult, lBlendshapeMeshes, side, dictBaseSorted, sM, vtxBefore,
                   vtxFirst, sidesDone>>

\* a faulty variant: the other side is reset
NewPositionOtherSide(iSide, s, lBaseVtxPos, lBlendshapeVtxPos) ==
    IF lBaseVtxPos # lBlendshapeVtxPos
    THEN IF iSide # s /\ iSide # "center" THEN lBaseVtxPos
         ELSE IF iSide = "center" THEN midpoint(lBaseVtxPos, lBlendshapeVtxPos)
         ELSE lBlendshapeVtxPos
    ELSE lBlendshapeVtxPos
\* lines 82-86: where the blendshape vertex is after this turn
NewPosition(iSide, s, lBaseVtxPos, lBlendshapeVtxPos) ==
    IF lBaseVtxPos # lBlendshapeVtxPos
    THEN IF iSide = s THEN lBaseVtxPos
         ELSE IF iSide = "center" THEN midpoint(lBaseVtxPos, lBlendshapeVtxPos)
         ELSE lBlendshapeVtxPos
    ELSE lBlendshapeVtxPos

\* lines 76-86: one turn of the loop over the dictionary, in the order of its
\* keys; pointPosition raises for a vertex the blendshape does not have
ResetVertex ==
    /\ sPc = "vertex"
    /\ sV \in DOMAIN dictBaseSorted
    /\ LET xBlendshapeMesh == lBlendshapeMeshes[sM]
           iSide == dictBaseSorted[sV]
       IN IF sV >= NumVtx(xBlendshapeMesh)
          THEN /\ sPc' = "raised"
               /\ UNCHANGED <<vtxPos, sV>>
          ELSE /\ vtxPos' = [vtxPos EXCEPT ![xBlendshapeMesh][sV + 1] =
                                NewPosition(iSide, side, pointPosition(BaseMesh, sV),
                                            pointPosition(xBlendshapeMesh, sV))]
               /\ sV' = sV + 1
               /\ sPc' = "vertex"
    /\ UNCHANGED <<dictResult, lBlendshapeMeshes, side, dictBaseSorted, sM, warned, vtxBefore,
                   vtxFirst, sidesDone>>

\* the loop of line 76 is over
ResetMeshDone ==
    /\ sPc = "vertex"
    /\ sV \notin DOMAIN dictBaseSorted
    /\ sM' = sM + 1
    /\ sPc' = "mesh"
    /\ UNCHANGED <<vtxPos, dictResult, lBlendshapeMeshes, side, dictBaseSorted, sV, warned,
                   vtxBefore, vtxFirst, sidesDone>>

\* the loop of line 71 is over
ResetReturn ==
    /\ sPc = "mesh"
    /\ sM > Len(lBlendshapeMeshes)
    /\ sPc' = "returned"
    /\ UNCHANGED <<vtxPos, dictResult, lBlendshapeMeshes, side, dictBaseSorted, sM, sV, warned,
                   vtxBefore, vtxFirst, sidesDone>>

\* Two matching blendshapes: both copies of one shape, the first to be reset
\* on the left and the second on the right
MirrorInit ==
    /\ ResetScene
    /\ vtxPos[1] = vtxPos[2]
    /\ sPc = "idle"
    /\ lBlendshapeMeshes = <<>>
    /\ side = ""

\* the user resets one copy on one side; the sides are taken in either order
MirrorCall ==
    /\ sPc \in {"idle", "returned"}
    /\ \E s \in {"left", "right"} \ sidesDone :
          /\ side' = s
          /\ lBlendshapeMeshes' = IF s = "left" THEN <<1>> ELSE <<2>>
    /\ sPc' = "call"
    /\ UNCHANGED <<vtxPos, dictResult, dictBaseSorted, sM, sV, warned, vtxBefore, vtxFirst,
                   sidesDone>>

----------------------------------------------------------------------------
(* The controls of the scene that ikfklimb.rig is given *)

NoneNode    == <<"None", 0>>     \* an argument left at None, or a name not yet bound
RootCtrl    == <<"Ctrl", 0>>     \* a control curve above the limb's controls
CtrlEnd     == <<"Ctrl", 1>>
CtrlPV      == <<"Ctrl", 2>>
CtrlSwitch  == <<"Ctrl", 3>>
CtrlFK(k)   == <<"Ctrl", 3 + k>>
Grp(c)      == <<"Grp", c[2]>>   \* an empty group made for control c alone
SharedGrp   == <<"Grp", 0>>      \* a group that also holds Prop
Prop        == <<"Prop", 0>>
Xform(n)    == <<"Xform", n>>    \* the n-th offset transform createOffsetXform makes
IKHandle    == <<"IKH", 0>>     \* the handle and the effector of the first call of rig
IKEffector  == <<"IKE", 0>>
IKHandleOf(n)   == <<"IKH", n>> \* those of the call after n earlier ones
IKEffectorOf(n) == <<"IKE", n>>

FKCtrls == {CtrlFK(k) : k \in 1..MaxFK}

\* where a control sits before rig is called
ParentOfKind(c, kind) ==
    CASE kind = "world"  -> WorldNode
      [] kind = "offset" -> Grp(c)
      [] kind = "shared" -> SharedGrp
      [] kind = "shaped" -> IF c \in FKCtrls /\ c # CtrlFK(1) THEN <<"Ctrl", c[2] - 1>> ELSE RootCtrl

\* the curve shape a control is made with
Shape(c) == <<"Shape", c[2]>>
Ctrls == {RootCtrl, CtrlEnd, CtrlPV, CtrlSwitch} \cup FKCtrls

\* pm.listRelatives(x, s=True) is not empty: a shape node is parented under x
HasShape(x) == \E shapeNode \in DOMAIN shapeParent : shapeParent[shapeNode] = x

\* node n is x or sits somewhere under x
RECURSIVE IsUnder(_, _, _)
IsUnder(dag, n, x) ==
    \/ n = x
    \/ n \in DOMAIN dag /\ IsUnder(dag, dag[n], x)

Restrict(f, S) == [n \in DOMAIN f \cap S |-> f[n]]

\* pm.delete(x): x goes, with every transform and shape under it
deleteNode(scene, x) ==
    LET kept == {n \in DOMAIN scene.dag : ~IsUnder(scene.dag, n, x)}
    IN [dag    |-> Restrict(scene.dag, kept),
        pos    |-> Restrict(scene.pos, kept),
        shapes |-> Restrict(scene.shapes,
                            {sh \in DOMAIN scene.shapes : ~IsUnder(scene.dag, scene.shapes[sh], x)})]

\* common.parentShapes, lines 117-128: one turn of the loop, as the set of its
\* outcomes.  A shape that is under another transform ends under xParent; the
\* transform Maya makes above it on the way (xAdded) is put under the world
\* and deleted, and the transform the shape came from stays.  A shape that is
\* under xParent already is not moved by line 118, so that xAdded is xParent
\* itself, which line 128 deletes with all that is under it; or the host
\* refuses line 118 and the call raises.  A node that is no longer in the
\* scene makes the call raise as well.
parentShape(scene, shapeNode, xParent) ==
    IF shapeNode \notin DOMAIN scene.shapes \/ xParent \notin DOMAIN scene.dag
    THEN {[scene |-> scene, raised |-> TRUE]}
    ELSE IF scene.shapes[shapeNode] = xParent
    THEN {[scene |-> scene, raised |-> TRUE],
          [scene |-> deleteNode(scene, xParent), raised |-> FALSE]}
    ELSE {[scene |-> [scene EXCEPT !.shapes[shapeNode] = xParent], raised |-> FALSE]}

\* common.parentShapes, lines 116-128: the outcomes of the whole loop
RECURSIVE parentShapes(_, _, _)
parentShapes(scene, lShapes, xParent) ==
    IF lShapes = <<>> THEN {[scene |-> scene, raised |-> FALSE]}
    ELSE UNION { IF o.raised THEN {o} ELSE parentShapes(o.scene, Tail(lShapes), xParent) :
                 o \in parentShape(scene, Head(lShapes), xParent) }

\* pm.listRelatives(x, typ='transform'): the transform children of x
TransformChildren(dag, x) == {n \in DOMAIN dag : dag[n] = x /\ n[1] \in {"Ctrl", "Grp", "Prop", "Xform"}}

\* world position of the rotate pivot of joint j and of its duplicates
JointPos(j) == <<j, j * j, j>>
Whole(v) == [num |-> v, den |-> 1]

\* a faulty variant: a parent with a single transform child refused as well
hasOffsetXformNoChild(dag, xCtrl) ==
    LET xParent == dag[xCtrl] IN
    IF xParent = WorldNode THEN FALSE
    ELSE IF HasShape(xParent) THEN FALSE
    ELSE IF Cardinality(TransformChildren(dag, xParent)) > 0 THEN FALSE
    ELSE TRUE
\* common.hasOffsetXform, lines 221-231
hasOffsetXform(dag, xCtrl) ==
    LET xParent == dag[xCtrl] IN
    IF xParent = WorldNode THEN FALSE
    ELSE IF HasShape(xParent) THEN FALSE
    ELSE IF Cardinality(TransformChildren(dag, xParent)) > 1 THEN FALSE
    ELSE TRUE

\* common.createOffsetXform, lines 251-262: the scene after the call.  The new
\* transform is placed on the driven transform (or on the control) by a
\* temporary parent constraint, parented where the control is, and the
\* control parented under it.  posDriven is NoneNode's when xDriven is None.
\* The log keeps, for each call, the control, the transform made and the
\* parent the control had when the call was made.
createOffsetXform(dag, pos, log, xCtrl, hasDriven, posDriven) ==
    LET xOffset == Xform(Len(log) + 1)
        place == IF hasDriven THEN posDriven ELSE pos[xCtrl]
    IN [dag  |-> (xOffset :> dag[xCtrl]) @@ [dag EXCEPT ![xCtrl] = xOffset],
        pos  |-> (xOffset :> place) @@ [pos EXCEPT ![xCtrl] = IF hasDriven THEN posDriven ELSE @],
        log  |-> Append(log, <<xCtrl, xOffset, dag[xCtrl]>>),
        xOffset |-> xOffset]

RigIdle ==
    /\ gPc = "idle" /\ xIKEndCtrl = NoneNode /\ xIKPVCtrl = NoneNode
    /\ lFKCtrls = [given |-> FALSE, items |-> <<>>] /\ xIKFKSwitchCtrl = NoneNode
    /\ lIKHandle = <<>> /\ xIKPVCtrlOffset = NoneNode /\ gI = 0 /\ xformPos = <<>>
    /\ rigConstraints = {} /\ attrIKFK = [exists |-> FALSE] /\ drivenKeys = {}
    /\ offsetsMade = <<>> /\ ikfkBefore = [exists |-> FALSE]
    /\ shapeParent = <<>> /\ psPc = "idle"

\* the IKFK attribute a switch control may carry before rig is called
IKFKAttrs ==
    { [exists |-> FALSE],
      [exists |-> TRUE, value |-> 7, min |-> 0, max |-> 10, dv |-> 0, keyable |-> TRUE],
      [exists |-> TRUE, value |-> 1, min |-> 0, max |-> 1, dv |-> 1, keyable |-> FALSE] }

\* where the pole vector control may be: off the plane of the joints, or on it
PVPoints == {<<2, 1, 0>>, <<0, 3, 0>>}

\* the scene rig is called in: the bind chain of NumJoints joints, about to go
\* through create, and the controls
RigScene ==
    /\ jntParent = [j \in Joints |-> j - 1]
    /\ cPc = "check"
    /\ lJoints = [k \in 1..NumJoints |-> k]
    /\ cI = 1
    /\ lIKJoints = <<>> /\ lFKJoints = <<>> /\ lBlendColors = <<>>
    /\ radius = <<>> /\ conns = {} /\ blender = <<>> /\ dupSrc = <<>>
    /\ \E kEnd \in {"world", "offset"}, kPV \in {"world", "offset", "shared", "shaped"},
          kFK \in [FKCtrls -> {"shaped", "offset"}] :
          dagParent = [c \in FKCtrls |-> ParentOfKind(c, kFK[c])]
                      @@ (CtrlEnd :> ParentOfKind(CtrlEnd, kEnd))
                      @@ (CtrlPV :> ParentOfKind(CtrlPV, kPV))
                      @@ (CtrlSwitch :> WorldNode)
                      @@ (RootCtrl :> WorldNode) @@ (SharedGrp :> WorldNode) @@ (Prop :> SharedGrp)
                      @@ [g \in {Grp(c) : c \in FKCtrls \cup {CtrlEnd, CtrlPV}} |-> WorldNode]
    /\ \E pv \in PVPoints :
          xformPos = [c \in FKCtrls \cup {CtrlEnd, CtrlSwitch} |-> Whole(<<0, 0, 0>>)]
                     @@ (CtrlPV :> Whole(pv)) @@ (Grp(CtrlPV) :> Whole(pv))
    /\ attrIKFK \in IKFKAttrs
    /\ ikfkBefore = attrIKFK
    /\ gPc = "idle" /\ xIKEndCtrl = NoneNode /\ xIKPVCtrl = NoneNode
    /\ lFKCtrls = [given |-> FALSE, items |-> <<>>] /\ xIKFKSwitchCtrl = NoneNode
    /\ lIKHandle = <<>> /\ xIKPVCtrlOffset = NoneNode /\ gI = 0
    /\ rigConstraints = {} /\ drivenKeys = {} /\ offsetsMade = <<>>
    /\ shapeParent = [shapeNode \in {Shape(c) : c \in Ctrls} |-> <<"Ctrl", shapeNode[2]>>]
    /\ psPc = "idle"

\* the shapes and the transforms parentShapes is called with
ShapeLists == {<<Shape(CtrlSwitch), Shape(RootCtrl)>>}
ShapeParents == {Grp(CtrlEnd), Xform(1)}

\* a call of parentShapes(lShapes, xParent) on the scene
ParentShapes ==
    /\ shapeParent # <<>>
    /\ \E lShapes \in ShapeLists, xParent \in ShapeParents :
          \E o \in parentShapes([dag |-> dagParent, pos |-> xformPos, shapes |-> shapeParent],
                                lShapes, xParent) :
             /\ dagParent' = o.scene.dag
             /\ xformPos' = o.scene.pos
             /\ shapeParent' = o.scene.shapes
             /\ psPc' = IF o.raised THEN "raised" ELSE "returned"
    /\ UNCHANGED exceptShapes

\* no call of create or rig is under way
NoCallRunning ==
    /\ cPc \in {"returned", "raised"} \/ (cPc = "check" /\ cI = 1)
    /\ gPc \in {"idle", "returned", "raised"}

----------------------------------------------------------------------------
(* ikfklimb.rig *)

\* the call, once create has returned its three lists: each control is passed or left at None
RigCall ==
    /\ cPc = "returned"
    /\ gPc = "idle"
    /\ xIKEndCtrl' \in {NoneNode, CtrlEnd}
    /\ xIKPVCtrl' \in {NoneNode, CtrlPV}
    /\ lFKCtrls' \in {[given |-> FALSE, items |-> <<>>]}
                     \cup {[given |-> TRUE, items |-> [k \in 1..n |-> CtrlFK(k)]] : n \in 0..MaxFK}
    /\ xIKFKSwitchCtrl' \in {NoneNode, CtrlSwitch}
    /\ ikfkBefore' = attrIKFK
    /\ gPc' = "ikHandle"
    /\ UNCHANGED <<createVars, lIKHandle, xIKPVCtrlOffset, gI, xformPos, rigConstraints,
                   attrIKFK, drivenKeys, offsetsMade>>

Constraint(kind, target, child) == [kind |-> kind, targets |-> <<target>>, child |-> child]

\* the calls of rig so far: each has made one IK handle
RigRuns == Cardinality({c \in rigConstraints : c.kind = "ikHandle"})

\* lines 78-79: a new IK handle from the first to the last IK joint, and its effector
RigIKHandle ==
    /\ gPc = "ikHandle"
    /\ lIKHandle' = <<IKHandleOf(RigRuns), IKEffectorOf(RigRuns)>>
    /\ rigConstraints' = rigConstraints \cup
          {[kind |-> "ikHandle", targets |-> <<lIKJoints[1], Last(lIKJoints)>>,
            child |-> IKHandleOf(RigRuns)]}
    /\ gPc' = "end"
    /\ UNCHANGED <<createVars, xIKEndCtrl, xIKPVCtrl, lFKCtrls, xIKFKSwitchCtrl, xIKPVCtrlOffset,
                   gI, xformPos, attrIKFK, drivenKeys, offsetsMade, ikfkBefore>>

\* the scene as it is, in the shape createOffsetXform returns
SceneNow == [dag |-> dagParent, pos |-> xformPos, log |-> offsetsMade, xOffset |-> NoneNode]

\* the node is in the scene; a method of a node that was deleted raises
Exists(x) == x \in DOMAIN dagParent

\* the newest entry of the log, when this step has made one, also gets the
\* number of the call of rig, whether the control's parent carried a shape
\* and how many transform children that parent had
Stamp(log) ==
    IF Len(log) > Len(offsetsMade)
    THEN [log EXCEPT ![Len(log)] =
              @ \o <<RigRuns, HasShape(@[3]), Cardinality(TransformChildren(dagParent, @[3]))>>]
    ELSE log

\* lines 82-84 and 106-108: the offset transform is made unless the control has one
WithOffsetXform(xCtrl, jntDriven) ==
    IF ~hasOffsetXform(dagParent, xCtrl)
    THEN createOffsetXform(dagParent, xformPos, offsetsMade, xCtrl, TRUE,
                           Whole(JointPos(dupSrc[jntDriven])))
    ELSE SceneNow

\* lines 80-88
RigEndCtrl ==
    /\ gPc = "end"
    /\ IF xIKEndCtrl = NoneNode
       THEN /\ gPc' = "pv"
            /\ UNCHANGED <<dagParent, xformPos, offsetsMade, rigConstraints>>
       ELSE IF ~Exists(xIKEndCtrl)
       THEN /\ gPc' = "raised"
            /\ UNCHANGED <<dagParent, xformPos, offsetsMade, rigConstraints>>
       ELSE LET after == WithOffsetXform(xIKEndCtrl, Last(lIKJoints)) IN
            /\ dagParent' = after.dag
            /\ xformPos' = after.pos
            /\ offsetsMade' = Stamp(after.log)
            /\ rigConstraints' = rigConstraints \cup
                  { Constraint("pointConstraint", xIKEndCtrl, lIKHandle[1]),
                    Constraint("orientConstraint", xIKEndCtrl, Last(lIKJoints)) }
            /\ gPc' = "pv"
    /\ UNCHANGED <<cPc, lJoints, cI, lIKJoints, lFKJoints, lBlendColors, radius, conns, blender,
                   dupSrc, xIKEndCtrl, xIKPVCtrl, lFKCtrls, xIKFKSwitchCtrl, lIKHandle,
                   xIKPVCtrlOffset, gI, attrIKFK, drivenKeys, ikfkBefore>>

RECURSIVE GCD(_, _)
GCD(a, b) == IF b = 0 THEN a ELSE GCD(b, a % b)

\* the position num / den in lowest terms
Reduce(p) ==
    LET g == GCD(GCD(GCD(Abs(p.num[1]), Abs(p.num[2])), Abs(p.num[3])), p.den)
    IN [num |-> <<p.num[1] \div g, p.num[2] \div g, p.num[3] \div g>>, den |-> p.den \div g]

\* lines 95-100: the joints' positions, the offset transform's position
\* vecIKPV = num / den, and the closest point to it on the joints' plane.
\* lines 178-180 of common are applied to den * vecIKPV, with the distance
\* taken from den * vecIKJoint1, and the result divided by den again.
\* lIKJoints[1] of the code is the second joint, the model's lIKJoints[2].
PVOnPlane(vecIKPV) ==
    LET vecIKJoint1 == JointPos(dupSrc[lIKJoints[1]])
        vecPlaneNormal == PlaneNormal(vecIKJoint1, JointPos(dupSrc[lIKJoints[2]]),
                                      JointPos(dupSrc[Last(lIKJoints)]))
        distance == PlaneDistance(vecPlaneNormal, VScale(vecIKPV.den, vecIKJoint1), vecIKPV.num)
        scaled == ClosestFrom(vecPlaneNormal, distance, vecIKPV.num)
    IN Reduce([num |-> scaled.num, den |-> scaled.den * vecIKPV.den])

\* lines 89-103.  xIKPVCtrlOffset is bound only by line 93; when the control
\* has an offset transform already line 98 reads an unbound local and raises.
RigPVCtrl ==
    /\ gPc = "pv"
    /\ IF xIKPVCtrl = NoneNode
       THEN /\ gPc' = "fk"
            /\ UNCHANGED <<dagParent, xformPos, offsetsMade, rigConstraints, xIKPVCtrlOffset>>
       ELSE IF ~Exists(xIKPVCtrl)
       THEN /\ gPc' = "raised"
            /\ UNCHANGED <<dagParent, xformPos, offsetsMade, rigConstraints, xIKPVCtrlOffset>>
       ELSE IF ~hasOffsetXform(dagParent, xIKPVCtrl)
       THEN LET after == createOffsetXform(dagParent, xformPos, offsetsMade, xIKPVCtrl, FALSE,
                                           xformPos[xIKPVCtrl])
                vecResult == PVOnPlane(after.pos[after.xOffset])
            IN /\ xIKPVCtrlOffset' = after.xOffset
               /\ dagParent' = after.dag
               /\ offsetsMade' = Stamp(after.log)
               \* line 101: the offset transform moves, and the control under it with it
               /\ xformPos' = [after.pos EXCEPT ![after.xOffset] = vecResult,
                                                ![xIKPVCtrl] = vecResult]
               /\ rigConstraints' = rigConstraints \cup
                     {Constraint("poleVectorConstraint", xIKPVCtrl, lIKHandle[1])}
               /\ gPc' = "fk"
       ELSE /\ gPc' = "raised"
            /\ UNCHANGED <<dagParent, xformPos, offsetsMade, rigConstraints, xIKPVCtrlOffset>>
    /\ gI' = 1
    /\ UNCHANGED <<cPc, lJoints, cI, lIKJoints, lFKJoints, lBlendColors, radius, conns, blender,
                   dupSrc, xIKEndCtrl, xIKPVCtrl, lFKCtrls, xIKFKSwitchCtrl, lIKHandle,
                   attrIKFK, drivenKeys, ikfkBefore>>

\* izip(lFKCtrls, lFKJoints) has a pair left
FKPairLeft == lFKCtrls.given /\ gI <= Len(lFKCtrls.items) /\ gI <= Len(lFKJoints)

\* lines 105-110: one turn of the loop
RigFKCtrl ==
    /\ gPc = "fk"
    /\ FKPairLeft
    /\ LET xFKCtrl == lFKCtrls.items[gI]
           xFKJnt == lFKJoints[gI]
       IN IF ~Exists(xFKCtrl)
          THEN /\ gPc' = "raised"
               /\ UNCHANGED <<dagParent, xformPos, offsetsMade, rigConstraints>>
          ELSE LET after == WithOffsetXform(xFKCtrl, xFKJnt) IN
               /\ dagParent' = after.dag
               /\ xformPos' = after.pos
               /\ offsetsMade' = Stamp(after.log)
               /\ rigConstraints' = rigConstraints \cup
                     {Constraint("orientConstraint", xFKCtrl, xFKJnt)}
               /\ UNCHANGED gPc
    /\ gI' = gI + 1
    /\ UNCHANGED <<cPc, lJoints, cI, lIKJoints, lFKJoints, lBlendColors, radius, conns, blender,
                   dupSrc, xIKEndCtrl, xIKPVCtrl, lFKCtrls, xIKFKSwitchCtrl, lIKHandle,
                   xIKPVCtrlOffset, attrIKFK, drivenKeys, ikfkBefore>>

\* a faulty variant: an attribute that exists is left at its value
SwitchAttrNotSet(attr) ==
    IF attr.exists THEN attr
    ELSE [exists |-> TRUE, value |-> 0, min |-> 0, max |-> 10, dv |-> 0, keyable |-> TRUE]
\* lines 112-118: IKFK.set(0), or the attribute is added when there is none
SwitchAttr(attr) ==
    IF attr.exists THEN [attr EXCEPT !.value = 0]
    ELSE [exists |-> TRUE, value |-> 0, min |-> 0, max |-> 10, dv |-> 0, keyable |-> TRUE]

\* lines 104 and 111-118: the FK loop is over (or was not entered)
RigSwitch ==
    /\ gPc = "fk"
    /\ ~FKPairLeft
    /\ IF xIKFKSwitchCtrl # NoneNode
       THEN /\ attrIKFK' = SwitchAttr(attrIKFK)
            /\ gPc' = "keys"
       ELSE /\ gPc' = "done"
            /\ UNCHANGED attrIKFK
    /\ gI' = 1
    /\ UNCHANGED <<createVars, xIKEndCtrl, xIKPVCtrl, lFKCtrls, xIKFKSwitchCtrl, lIKHandle,
                   xIKPVCtrlOffset, xformPos, rigConstraints, drivenKeys, offsetsMade, ikfkBefore>>

\* pm.setDrivenKeyframe(driven, v=v, cd=driver, dv=dv): the key at dv is set to v
setDrivenKeyframe(keys, driven, v, driver, dv) ==
    {k \in keys : ~(k[1] = driven /\ k[2] = driver /\ k[3] = dv)} \cup {<<driven, driver, dv, v>>}

\* lines 121-125: one turn of the loop
RigDrivenKeys ==
    /\ gPc = "keys"
    /\ gI <= Len(lBlendColors)
    /\ LET blendcCurrent == lBlendColors[gI] IN
       drivenKeys' = setDrivenKeyframe(
                         setDrivenKeyframe(drivenKeys, blendcCurrent, 0, xIKFKSwitchCtrl, 0),
                         blendcCurrent, 1, xIKFKSwitchCtrl, 10)
    /\ gI' = gI + 1
    /\ UNCHANGED <<createVars, gPc, xIKEndCtrl, xIKPVCtrl, lFKCtrls, xIKFKSwitchCtrl, lIKHandle,
                   xIKPVCtrlOffset, xformPos, rigConstraints, attrIKFK, offsetsMade, ikfkBefore>>

RigDrivenKeysDone ==
    /\ gPc = "keys"
    /\ gI > Len(lBlendColors)
    /\ gPc' = "done"
    /\ UNCHANGED <<createVars, xIKEndCtrl, xIKPVCtrl, lFKCtrls, xIKFKSwitchCtrl, lIKHandle,
                   xIKPVCtrlOffset, gI, xformPos, rigConstraints, attrIKFK, drivenKeys,
                   offsetsMade, ikfkBefore>>

\* rig returns None
RigReturn ==
    /\ gPc = "done"
    /\ gPc' = "returned"
    /\ UNCHANGED <<createVars, xIKEndCtrl, xIKPVCtrl, lFKCtrls, xIKFKSwitchCtrl, lIKHandle,
                   xIKPVCtrlOffset, gI, xformPos, rigConstraints, attrIKFK, drivenKeys,
                   offsetsMade, ikfkBefore>>

\* rig is called once more with the same lists and the same controls, after
\* it returned or raised; the locals of the new call are not bound yet
RigAgain ==
    /\ gPc \in {"returned", "raised"}
    /\ RigRuns < MaxRuns
    /\ gPc' = "ikHandle"
    /\ lIKHandle' = <<>>
    /\ xIKPVCtrlOffset' = NoneNode
    /\ gI' = 0
    /\ ikfkBefore' = attrIKFK
    /\ UNCHANGED <<createVars, xIKEndCtrl, xIKPVCtrl, lFKCtrls, xIKFKSwitchCtrl, xformPos,
                   rigConstraints, attrIKFK, drivenKeys, offsetsMade>>

\* the steps of create, which leave the rig's own state alone
RigUntouched ==
    UNCHANGED <<gPc, xIKEndCtrl, xIKPVCtrl, lFKCtrls, xIKFKSwitchCtrl, lIKHandle, xIKPVCtrlOffset,
                gI, xformPos, rigConstraints, attrIKFK, drivenKeys, offsetsMade, ikfkBefore>>

----------------------------------------------------------------------------
(* Specifications *)

InitHier == jntParent \in Forests /\ HierInit /\ CreateIdle /\ ReposIdle /\ PlaneIdle /\ MeshIdle /\ RigIdle

NextHier ==
    \/ HierCheck /\ UNCHANGED exceptHier
    \/ HierLoop /\ UNCHANGED exceptHier
    \/ HierReturn /\ UNCHANGED exceptHier

SpecHier == InitHier /\ [][NextHier]_vars

InitCreate == jntParent \in Forests /\ CreateInit /\ HierIdle /\ ReposIdle /\ PlaneIdle /\ MeshIdle /\ RigIdle

NextCreate ==
    \/ CheckContinuousStep /\ UNCHANGED exceptCreate
    \/ CheckContinuousReturn /\ UNCHANGED exceptCreate
    \/ CreateDuplicate /\ UNCHANGED exceptCreate
    \/ CreateDuplicateDone /\ UNCHANGED exceptCreate
    \/ CreateParent /\ UNCHANGED exceptCreate
    \/ CreateParentDone /\ UNCHANGED exceptCreate
    \/ CreateBlend /\ UNCHANGED exceptCreate
    \/ CreateReturn /\ UNCHANGED exceptCreate

SpecCreate == InitCreate /\ [][NextCreate]_vars

\* the joints play no part in reposition
NoJoints == jntParent = [j \in Joints |-> World]

InitRepos == NoJoints /\ ReposInit /\ HierIdle /\ CreateIdle /\ PlaneIdle /\ MeshIdle /\ RigIdle

NextRepos ==
    \/ ReposLists /\ UNCHANGED exceptRepos
    \/ ReposConstrain /\ UNCHANGED exceptRepos
    \/ ReposDelete /\ UNCHANGED exceptRepos
    \/ ReposReturn /\ UNCHANGED exceptRepos

SpecRepos == InitRepos /\ [][NextRepos]_vars

InitPlane == NoJoints /\ PlaneInit /\ HierIdle /\ CreateIdle /\ ReposIdle /\ MeshIdle /\ RigIdle

NextPlane == PlaneCall /\ UNCHANGED exceptPlane

SpecPlane == InitPlane /\ [][NextPlane]_vars

InitSort == NoJoints /\ SortInit /\ HierIdle /\ CreateIdle /\ ReposIdle /\ PlaneIdle /\ RigIdle

NextSort == SortCall /\ UNCHANGED exceptMesh

SpecSort == InitSort /\ [][NextSort]_vars

InitReset == NoJoints /\ ResetInit /\ HierIdle /\ CreateIdle /\ ReposIdle /\ PlaneIdle /\ RigIdle

NextReset ==
    \/ ResetSort /\ UNCHANGED exceptMesh
    \/ ResetMesh /\ UNCHANGED exceptMesh
    \/ ResetVertex /\ UNCHANGED exceptMesh
    \/ ResetMeshDone /\ UNCHANGED exceptMesh
    \/ ResetReturn /\ UNCHANGED exceptMesh

SpecReset == InitReset /\ [][NextReset]_vars

InitMirror == NoJoints /\ MirrorInit /\ HierIdle /\ CreateIdle /\ ReposIdle /\ PlaneIdle /\ RigIdle

NextMirror ==
    \/ MirrorCall /\ UNCHANGED exceptMesh
    \/ ResetSort /\ UNCHANGED exceptMesh
    \/ ResetMesh /\ UNCHANGED exceptMesh
    \/ ResetVertex /\ UNCHANGED exceptMesh
    \/ ResetMeshDone /\ UNCHANGED exceptMesh
    \/ ResetReturn /\ UNCHANGED exceptMesh

SpecMirror == InitMirror /\ [][NextMirror]_vars

InitRig == RigScene /\ HierIdle /\ ReposIdle /\ PlaneIdle /\ MeshIdle

NextRig ==
    \/ CheckContinuousStep /\ RigUntouched /\ UNCHANGED exceptRig
    \/ CheckContinuousReturn /\ RigUntouched /\ UNCHANGED exceptRig
    \/ CreateDuplicate /\ RigUntouched /\ UNCHANGED exceptRig
    \/ CreateDuplicateDone /\ RigUntouched /\ UNCHANGED exceptRig
    \/ CreateParent /\ RigUntouched /\ UNCHANGED exceptRig
    \/ CreateParentDone /\ RigUntouched /\ UNCHANGED exceptRig
    \/ CreateBlend /\ RigUntouched /\ UNCHANGED exceptRig
    \/ CreateReturn /\ RigUntouched /\ UNCHANGED exceptRig
    \/ RigCall /\ UNCHANGED exceptRig
    \/ RigIKHandle /\ UNCHANGED exceptRig
    \/ RigEndCtrl /\ UNCHANGED exceptRig
    \/ RigPVCtrl /\ UNCHANGED exceptRig
    \/ RigFKCtrl /\ UNCHANGED exceptRig
    \/ RigSwitch /\ UNCHANGED exceptRig
    \/ RigDrivenKeys /\ UNCHANGED exceptRig
    \/ RigDrivenKeysDone /\ UNCHANGED exceptRig
    \/ RigReturn /\ UNCHANGED exceptRig

SpecRig == InitRig /\ [][NextRig]_vars

\* rig called on the same controls up to MaxRuns times, on a scene whose
\* shapes parentShapes may have moved
NextRerun ==
    \/ NextRig
    \* parentShapes is called before, between or after the calls
    \/ ParentShapes /\ NoCallRunning
    \/ RigAgain /\ UNCHANGED exceptRig

\* the switch attribute and the place of the pole vector control play no part
\* in the offset transforms: one of each
InitRerun ==
    /\ InitRig
    /\ ~attrIKFK.exists
    /\ xformPos[CtrlPV] = Whole(<<2, 1, 0>>)

SpecRerun == InitRerun /\ [][NextRerun]_vars

----------------------------------------------------------------------------
(* Claims about common.getHierarchy *)

\* each element of l is the parent of the next
ParentOfNext(l) == \A k \in 1..(Len(l) - 1) : getParent(l[k + 1]) = l[k]

\* C7: when xEnd is a descendant of xStart, getHierarchy terminates (the walk
\* never leaves the scene and the list never outgrows it) and returns the list
\* from xStart to xEnd in which each element is the parent of the next; when
\* xEnd is not a descendant of xStart (xStart = xEnd included) it raises and
\* returns no list.
C7_GetHierarchy ==
    /\ xEnd \in listRelativesAD(xStart) => hPc # "raised"
    /\ xEnd \notin listRelativesAD(xStart) => hPc \in {"check", "raised"} /\ lNodes = <<>>
    /\ hPc = "loop" => current \in Joints /\ Len(lNodes) <= NumJoints /\ lNodes[1] = current
    /\ hPc = "returned" =>
          /\ lNodes[1] = xStart
          /\ Last(lNodes) = xEnd
          /\ ParentOfNext(lNodes)

\* a walk over two parent pointers has returned
C7_Witness == hPc = "returned" /\ Len(lNodes) = 3

----------------------------------------------------------------------------
(* Claims about ikfklimb.create *)

\* lDup holds one duplicate per joint of the completed bind list, in its order
OnePerJoint(lDup) ==
    /\ Len(lDup) = Len(lJoints)
    /\ \A k \in 1..Len(lDup) : dupSrc[lDup[k]] = lJoints[k]
    /\ \A a, b \in 1..Len(lDup) : a # b => lDup[a] # lDup[b]

\* the duplicate of each joint after the first sits under the duplicate of that joint's parent
UnderDuplicateOfParent(lDup) ==
    \A k \in 2..Len(lJoints) :
        \E m \in 1..Len(lJoints) :
            /\ lJoints[m] = getParent(lJoints[k])
            /\ dagParent[lDup[k]] = lDup[m]

\* the completed bind list is one chain, top first
IsChain(l) == \A k \in 2..Len(l) : getParent(l[k]) = l[k - 1]

\* C1 as stated: for every list checkContinuousHierarchy accepts, the IK and
\* the FK list hold one duplicate per bind joint in order, and each duplicate
\* after the first is parented under the duplicate of its bind joint's parent.
C1_AsStated ==
    cPc = "returned" =>
        /\ OnePerJoint(lIKJoints) /\ OnePerJoint(lFKJoints)
        /\ UnderDuplicateOfParent(lIKJoints) /\ UnderDuplicateOfParent(lFKJoints)

\* C1 amended: the same, for the accepted lists whose completed list is a
\* chain (each joint after the first is a child of the joint before it); for
\* every accepted list, one duplicate per joint in order.
C1_ChainsMatch ==
    cPc = "returned" =>
        /\ OnePerJoint(lIKJoints) /\ OnePerJoint(lFKJoints)
        /\ IsChain(lJoints) =>
               UnderDuplicateOfParent(lIKJoints) /\ UnderDuplicateOfParent(lFKJoints)

\* create has returned for a chain of three joints
C1_Witness == cPc = "returned" /\ Len(lJoints) = 3 /\ IsChain(lJoints)

\* the connections that touch node n
ConnectionsOf(n) == {c \in conns : c[1] = n \/ c[3] = n}

\* C3: after create returns there is exactly one blendColors node per bind
\* joint; it has the FK duplicate's rotate in color1, the IK duplicate's rotate
\* in color2, its output in the bind joint's rotate and a blender of 0; the
\* blend list has the length and the order of the IK and FK lists.
C3_BlendNetwork ==
    cPc = "returned" =>
        /\ Len(lBlendColors) = Len(lJoints)
        /\ Len(lBlendColors) = Len(lIKJoints)
        /\ Len(lBlendColors) = Len(lFKJoints)
        /\ DOMAIN blender = {lBlendColors[k] : k \in 1..Len(lBlendColors)}
        /\ Cardinality(DOMAIN blender) = Len(lJoints)
        /\ \A k \in 1..Len(lJoints) :
              /\ dupSrc[lIKJoints[k]] = lJoints[k]
              /\ dupSrc[lFKJoints[k]] = lJoints[k]
              /\ ConnectionsOf(lBlendColors[k]) =
                    { <<lFKJoints[k], "rotate", lBlendColors[k], "color1">>,
                      <<lIKJoints[k], "rotate", lBlendColors[k], "color2">>,
                      <<lBlendColors[k], "output", Jnt(lJoints[k]), "rotate">> }
              /\ {c \in conns : c[3] = Jnt(lJoints[k])} =
                    { <<lBlendColors[k], "output", Jnt(lJoints[k]), "rotate">> }
              /\ blender[lBlendColors[k]] = 0

\* create has returned with a blend node for each of three joints and their
\* nine connections
C3_Witness ==
    /\ cPc = "returned"
    /\ Len(lBlendColors) = 3
    /\ Cardinality(conns) = 9

----------------------------------------------------------------------------
(* Claims about common.reposition *)

\* C8: reposition handles each child on its own: one constraint per child, from
\* all the given parents, of the kind uType chooses (point, orient, otherwise
\* parent), deleted before the next child is handled; so at most one constraint
\* made by reposition exists at any moment and none when it returns.
C8_OneTemporaryConstraint ==
    /\ Cardinality(constraints) <= 1
    /\ rPc \in {"call", "constrain", "returned"} => constraints = {}
    /\ rPc = "delete" =>
          constraints = {made[Len(made)]} /\ Len(made) = rI /\ constraint = made[rI].id
    /\ \A k \in 1..Len(made) :
          /\ made[k].child = lChild[k]
          /\ made[k].targets = GetListOfObjectNames(oParent)
          /\ made[k].kind = (CASE uType = "point" -> "pointConstraint"
                               [] uType = "orient" -> "orientConstraint"
                               [] OTHER -> "parentConstraint")
    /\ rPc = "returned" =>
          /\ Len(made) = Len(oChild.items)
          /\ lChild = oChild.items

\* the second child's constraint exists, from two parents, after the first
\* child's was deleted
C8_Witness ==
    /\ rPc = "delete" /\ rI = 2 /\ Len(lParent) = 2 /\ uType = "orient"
    /\ Cardinality(constraints) = 1

----------------------------------------------------------------------------
(* Claims about common.calculateClosestPointOnPlane *)

\* the cross product of line 178, the direction of the plane normal
NormalDir == VCross(VSub(vecPlane2, vecPlane1), VSub(vecPlane3, vecPlane1))

\* C9: for plane points not on one line, the returned point lies on the plane
\* (its offset from vecPlane1 has zero dot product with the normal), differs
\* from vecPoint only along the normal, and is vecPoint itself when vecPoint
\* is on the plane.  The returned point is num / den.
C9_ClosestPointOnPlane ==
    pPc = "returned" =>
        /\ vecClosest.den > 0
        /\ VDot(NormalDir, VSub(vecClosest.num, VScale(vecClosest.den, vecPlane1))) = 0
        /\ VCross(NormalDir, VSub(vecClosest.num, VScale(vecClosest.den, vecPoint))) = Zero3
        /\ VDot(NormalDir, VSub(vecPoint, vecPlane1)) = 0 =>
              vecClosest.num = VScale(vecClosest.den, vecPoint)

\* a point off a slanted plane has been projected to a point with fractional coordinates
C9_Witness ==
    /\ pPc = "returned"
    /\ vecClosest.num # VScale(vecClosest.den, vecPoint)
    /\ \E k \in 1..3 : vecClosest.num[k] % vecClosest.den # 0

----------------------------------------------------------------------------
(* Claims about blendshapemirrorhelper._sortVerticies *)

\* C10: _sortVerticies gives every vertex index 0..n-1 of the mesh, and nothing
\* else, one of 'center', 'left', 'right': 'center' exactly when |x| is at most
\* 0.000001, 'left' exactly when x is above that tolerance, 'right' exactly
\* when x is below its negative.
C10_SortVerticies ==
    sPc = "sorted" =>
        /\ DOMAIN dictResult = 0..(Len(vtxPos[BaseMesh]) - 1)
        /\ \A i \in DOMAIN dictResult :
              LET x == vtxPos[BaseMesh][i + 1][1] IN
              /\ dictResult[i] \in {"center", "left", "right"}
              /\ dictResult[i] = "center" <=> (x <= SortAbsTol /\ x >= -SortAbsTol)
              /\ dictResult[i] = "left" <=> x > SortAbsTol
              /\ dictResult[i] = "right" <=> x < -SortAbsTol

\* a mesh with a vertex exactly at the tolerance and one just past its negative was sorted
C10_Witness ==
    /\ sPc = "sorted"
    /\ Len(vtxPos[BaseMesh]) = 2
    /\ vtxPos[BaseMesh][1][1] = SortAbsTol
    /\ vtxPos[BaseMesh][2][1] = -SortAbsTol - 2
    /\ dictResult[0] = "center" /\ dictResult[1] = "right"

----------------------------------------------------------------------------
(* Claims about blendshapemirrorhelper.resetSide *)

InReset(mesh) == \E k \in 1..Len(lBlendshapeMeshes) : lBlendshapeMeshes[k] = mesh

\* C5: after resetSide, for every blendshape mesh in the list and every vertex
\* index of the base mesh: a vertex the base has on the given side is at its
\* base position, a 'center' vertex is at the midpoint of its base position
\* and its position before the call, a vertex of the other side is where it
\* was before the call.
C5_ResetSide ==
    sPc = "returned" =>
        \A mesh \in Shapes : InReset(mesh) =>
            \A i \in 0..(Len(vtxPos[BaseMesh]) - 1) :
                LET now    == vtxPos[mesh][i + 1]
                    base   == vtxPos[BaseMesh][i + 1]
                    before == vtxBefore[mesh][i + 1]
                    iSide  == SideOf(base[1])
                IN /\ iSide = side => now = base
                   /\ iSide = "center" => VScale(2, now) = VAdd(base, before)
                   /\ iSide \notin {side, "center"} => now = before

\* resetSide has returned for two blendshapes, having reset a vertex of the
\* side, halved a center vertex and left one of the other side where it was
C5_Witness ==
    /\ sPc = "returned"
    /\ Len(lBlendshapeMeshes) = 2
    /\ \E i, j \in 1..MaxVtx :
          /\ SideOf(vtxPos[BaseMesh][i][1]) = side
          /\ vtxBefore[1][i] # vtxPos[BaseMesh][i]
          /\ vtxPos[1][i] = vtxPos[BaseMesh][i]
          /\ SideOf(vtxPos[BaseMesh][j][1]) = "center"
          /\ vtxBefore[2][j] # vtxPos[BaseMesh][j]
          /\ vtxPos[2][j] # vtxBefore[2][j]

\* C6: for a blendshape M and a base B, with L the copy reset on the left and
\* R the copy reset on the right, (L - B) + (R - B) = (M - B) at every vertex:
\* both at 1, the two halves add up to the shape.
C6_SidesAddUp ==
    (sPc = "returned" /\ sidesDone = {"left", "right"}) =>
        \A i \in 1..Len(vtxPos[BaseMesh]) :
            LET B == vtxPos[BaseMesh][i]
                L == vtxPos[1][i]
                R == vtxPos[2][i]
                M == vtxFirst[1][i]
            IN VAdd(VSub(L, B), VSub(R, B)) = VSub(M, B)

\* both copies have been reset, and a center vertex that the shape moves was halved in each
C6_Witness ==
    /\ sPc = "returned" /\ sidesDone = {"left", "right"}
    /\ \E i \in 1..MaxVtx :
          /\ SideOf(vtxPos[BaseMesh][i][1]) = "center"
          /\ vtxFirst[1][i] # vtxPos[BaseMesh][i]
          /\ vtxPos[1][i] = vtxPos[2][i]
          /\ vtxPos[1][i] # vtxFirst[1][i]

----------------------------------------------------------------------------
(* Claims about ikfklimb.rig *)

\* the position p = num / den lies on the plane through the first, second and last IK joint
OnIKPlane(p) ==
    LET p1 == JointPos(dupSrc[lIKJoints[1]])
        n  == VCross(VSub(JointPos(dupSrc[lIKJoints[2]]), p1),
                     VSub(JointPos(dupSrc[Last(lIKJoints)]), p1))
    IN VDot(n, VSub(p.num, VScale(p.den, p1))) = 0

\* rig is over: it returned or it raised
RigOver == gPc \in {"returned", "raised"}

\* C2: whenever a pole vector control is passed to rig, rig moves the
\* control's offset transform onto the plane through the first, second and
\* last IK joint and pole-vector-constrains the IK handle to the control,
\* whether the control had an offset transform before the call or rig made it.
C2_PoleVectorRigged ==
    (RigOver /\ xIKPVCtrl # NoneNode) =>
        /\ OnIKPlane(xformPos[dagParent[xIKPVCtrl]])
        /\ Constraint("poleVectorConstraint", xIKPVCtrl, IKHandle) \in rigConstraints

\* C4: when a switch control is passed, after rig returns the control has an
\* IKFK attribute of value 0, created with range 0..10 and default 0 exactly
\* when there was none before the call, and every node of lBlendColors has
\* its blender keyed on that attribute: 0 at IKFK = 0 and 1 at IKFK = 10.
C4_SwitchDrivesBlenders ==
    (gPc = "returned" /\ xIKFKSwitchCtrl # NoneNode) =>
        /\ attrIKFK.exists
        /\ attrIKFK.value = 0
        /\ ~ikfkBefore.exists =>
              attrIKFK.min = 0 /\ attrIKFK.max = 10 /\ attrIKFK.dv = 0
        /\ ikfkBefore.exists =>
              /\ attrIKFK.min = ikfkBefore.min /\ attrIKFK.max = ikfkBefore.max
              /\ attrIKFK.dv = ikfkBefore.dv /\ attrIKFK.keyable = ikfkBefore.keyable
        /\ \A k \in 1..Len(lBlendColors) :
              {key \in drivenKeys : key[1] = lBlendColors[k]} =
                  { <<lBlendColors[k], xIKFKSwitchCtrl, 0, 0>>,
                    <<lBlendColors[k], xIKFKSwitchCtrl, 10, 1>> }

\* rig has returned for a switch control whose IKFK attribute stood at 7, with every blender keyed
C4_Witness ==
    /\ gPc = "returned" /\ xIKFKSwitchCtrl = CtrlSwitch
    /\ ikfkBefore.exists /\ ikfkBefore.value = 7
    /\ Cardinality(drivenKeys) = 2 * Len(lBlendColors)
    /\ Len(lBlendColors) = NumJoints

----------------------------------------------------------------------------
(* Claims about common.createOffsetXform and common.hasOffsetXform *)

\* everything parented under x, of whatever type, shape nodes included
ChildrenOf(x) == {n \in DOMAIN dagParent : dagParent[n] = x}
                 \cup {n \in DOMAIN shapeParent : shapeParent[n] = x}

\* the controls createOffsetXform was called on, in the order of the calls
OffsetControls == [k \in 1..Len(offsetsMade) |-> offsetsMade[k][1]]

\* rig is at work past its IK handle: nothing but rig has touched the scene
\* since the offset transforms of this call were made
InCall == gPc \in {"end", "pv", "fk", "keys", "done"}

\* after createOffsetXform(xCtrl, xDriven) returns, the new offset transform is
\* parented where xCtrl was parented before the call, xCtrl is its only
\* child, and hasOffsetXform(xCtrl) returns True
OffsetXformMade ==
    InCall =>
        \A k \in 1..Len(offsetsMade) :
            LET xCtrl   == offsetsMade[k][1]
                xOffset == offsetsMade[k][2]
                xBefore == offsetsMade[k][3]
            IN offsetsMade[k][4] = RigRuns =>
                  /\ dagParent[xOffset] = xBefore
                  /\ ChildrenOf(xOffset) = {xCtrl}
                  /\ hasOffsetXform(dagParent, xCtrl)

EntriesOf(c) == {k \in 1..Len(offsetsMade) : offsetsMade[k][1] = c}

============================================================================
